---- MODULE Spec2Model ----
(***************************************************************************)
(* Model of multiomics_integrator.py: MultiOmicsIntegrator holds five      *)
(* scikit-learn PCA estimators (four per-layer, one joint); fit_transform  *)
(* checks the row counts, fits the four per-layer estimators in source     *)
(* order, stacks the four latent matrices and fits the joint estimator.    *)
(*                                                                         *)
(* A matrix is its shape plus an abstract content tag; a PCA result is an  *)
(* uninterpreted function of the content it was fit on, of n_components    *)
(* and of the random draws its solver consumed.  random_state=None makes   *)
(* the randomized solver draw from numpy's process-wide generator, which   *)
(* is modelled as the counter globalRng.  n_components ranges over the     *)
(* positive integers and random_state over None and an integer seed, as    *)
(* the constructor's annotations say; array contents are finite numbers.   *)
(***************************************************************************)
EXTENDS Integers, Sequences, FiniteSets, TLC

\* ---- bounds of the model ----
MaxRows == 2
MaxCols == 1
MaxComp == 2
MaxCalls == 2

\* ---- constants of the program ----
DemoBulkWidth == 1000
DemoSeed == 42

None == <<>>

Min(a, b) == IF a <= b THEN a ELSE b
Max(a, b) == IF a >= b THEN a ELSE b

\* The four positional parameters of fit_transform, in signature order.
LayerOrder == <<"metabolomics", "bulk_rna", "spatial_trans", "sc_rna">>
Layers == {LayerOrder[i] : i \in 1..4}

ReducerOfSlip(l) ==
    CASE l = "metabolomics" -> "pca_metabolomics"
      [] l = "bulk_rna" -> "pca_bulk_rna"
      [] l = "spatial_trans" -> "pca_spatial"
      [] l = "sc_rna" -> "pca_spatial"

\* The attribute holding the estimator of each layer.
ReducerOf(l) ==
    CASE l = "metabolomics" -> "pca_metabolomics"
      [] l = "bulk_rna" -> "pca_bulk_rna"
      [] l = "spatial_trans" -> "pca_spatial"
      [] l = "sc_rna" -> "pca_sc_rna"

Reducers == {ReducerOf(l) : l \in Layers} \cup {"pca_joint"}

\* ---- inputs ----
\* Two adjacent row counts (as in "100 vs 99"); a narrow and a wide layer.
RowCounts == {MaxRows - 1, MaxRows}
Widths == {MaxCols, DemoBulkWidth}
Versions == {"a", "b"}
Components == 1..MaxComp
RandomStates == {None, <<DemoSeed>>}

\* An input array for one layer: shape and content.
Matrix(l, r, c, d) == [rows |-> r, cols |-> c, data |-> <<l, d>>]

ArgSets ==
    {[l \in Layers |-> Matrix(l, n[l], w[l], d)] :
        n \in [Layers -> RowCounts], w \in [Layers -> Widths], d \in Versions}

\* ---- sklearn.decomposition.PCA ----
\* PCA(n_components=..., random_state=...): an unfitted estimator.
PCA(k, rs) ==
    [n_components |-> k, random_state |-> rs, n_features_in |-> 0, fit |-> <<>>]

\* svd_solver="auto": the randomized solver is taken for a large matrix that
\* is not tall-and-skinny when n_components is below 80% of its smaller side.
UsesRandomized(est, X) ==
    /\ ~(X.cols <= 1000 /\ X.rows >= 10 * X.cols)
    /\ Max(X.rows, X.cols) > 500
    /\ 1 <= est.n_components
    /\ 5 * est.n_components < 4 * Min(X.rows, X.cols)

\* Input validation: a 2-D array with at least one row and one column.
ArrayOk(X) == X.rows >= 1 /\ X.cols >= 1

ShapeOkStrict(est, X) ==
    /\ ArrayOk(X)
    /\ est.n_components < Min(X.rows, X.cols)

ShapeOkRowsOnly(est, X) ==
    /\ ArrayOk(X)
    /\ est.n_components <= X.rows

\* fit raises ValueError unless n_components <= min(n_samples, n_features).
ShapeOk(est, X) ==
    /\ ArrayOk(X)
    /\ est.n_components <= Min(X.rows, X.cols)

DrawsIgnoreSeed(est, X, rng) ==
    IF ~UsesRandomized(est, X) THEN <<"exact", 0>> ELSE <<"global", rng>>

\* The random draws a fit consumes: none for the exact solvers, a generator
\* seeded afresh from an integer random_state, or the process-wide generator
\* at its current position when random_state is None.
Draws(est, X, rng) ==
    IF ~UsesRandomized(est, X) THEN <<"exact", 0>>
    ELSE IF est.random_state = None THEN <<"global", rng>>
    ELSE <<"seed", est.random_state[1]>>

PCAFitTransformKeepsFit(est, X, rng) ==
    IF ~ShapeOk(est, X)
    THEN [ok |-> FALSE, est |-> est, out |-> <<>>, rng |-> rng]
    ELSE LET rnd == Draws(est, X, rng)
             basis == IF est.fit = <<>>
                      THEN [of |-> X.data, k |-> est.n_components, rnd |-> rnd]
                      ELSE est.fit[1].basis
         IN [ok |-> TRUE,
             est |-> [est EXCEPT !.n_features_in = X.cols,
                                 !.fit = <<[n_samples |-> X.rows,
                                            n_features |-> X.cols,
                                            basis |-> basis]>>],
             out |-> <<[rows |-> X.rows, cols |-> est.n_components, data |-> basis]>>,
             rng |-> IF rnd[1] = "global" THEN rng + 1 ELSE rng]

\* PCA.fit_transform(X): refits the estimator from X alone and returns the
\* projected matrix (n_samples, n_components).  On a bad shape it raises
\* ValueError: the fitted components are kept, only the width recorded by
\* input validation has been overwritten.
PCAFitTransform(est, X, rng) ==
    IF ~ShapeOk(est, X)
    THEN [ok |-> FALSE,
          est |-> IF ArrayOk(X) THEN [est EXCEPT !.n_features_in = X.cols] ELSE est,
          out |-> <<>>, rng |-> rng]
    ELSE LET rnd == Draws(est, X, rng)
             basis == [of |-> X.data, k |-> est.n_components, rnd |-> rnd]
         IN [ok |-> TRUE,
             est |-> [est EXCEPT !.n_features_in = X.cols,
                                 !.fit = <<[n_samples |-> X.rows,
                                            n_features |-> X.cols,
                                            basis |-> basis]>>],
             out |-> <<[rows |-> X.rows, cols |-> est.n_components, data |-> basis]>>,
             rng |-> IF rnd[1] = "global" THEN rng + 1 ELSE rng]

HstackSwapped(ms) ==
    [rows |-> ms[1].rows,
     cols |-> ms[1].cols + ms[2].cols + ms[3].cols + ms[4].cols,
     data |-> <<ms[1].data, ms[3].data, ms[2].data, ms[4].data>>]

\* np.hstack of the four latent matrices in the order of the list literal.
Hstack(ms) ==
    [rows |-> ms[1].rows,
     cols |-> ms[1].cols + ms[2].cols + ms[3].cols + ms[4].cols,
     data |-> <<ms[1].data, ms[2].data, ms[3].data, ms[4].data>>]

\* ---- MultiOmicsIntegrator ----
\* __post_init__: five estimators sharing n_components and random_state.
NewIntegrator(k, rs) ==
    [n_components |-> k, random_state |-> rs,
     pca |-> [r \in Reducers |-> PCA(k, rs)]]

NoError == [type |-> "none", at |-> "none"]
ValueError(site) == [type |-> "ValueError", at |-> site]

VARIABLES integrators, globalRng, pc, self, args, latent, concatenated,
          result, error, calls, pre, rng0, trace

vars == <<integrators, globalRng, pc, self, args, latent, concatenated,
          result, error, calls, pre, rng0, trace>>

NoLatents == [l \in Layers |-> <<>>]
NoArgs == [l \in Layers |-> Matrix(l, 0, 0, "")]
Ids == DOMAIN integrators
Quiescent == pc \in {"idle", "returned", "raised"}

InitFrame ==
    /\ globalRng = 0
    /\ pc = "idle"
    /\ self = 1
    /\ args = NoArgs
    /\ latent = NoLatents
    /\ concatenated = <<>>
    /\ result = [i \in Ids |-> <<>>]
    /\ error = NoError
    /\ calls = 0
    /\ pre = integrators[1].pca
    /\ rng0 = 0
    /\ trace = <<>>

Init ==
    /\ \E k \in Components, rs \in RandomStates :
          integrators = [i \in {1} |-> NewIntegrator(k, rs)]
    /\ InitFrame

\* Entry of fit_transform on integrator i with arguments a.
Call(i, a) ==
    /\ self' = i
    /\ args' = a
    /\ pc' = "check"
    /\ latent' = NoLatents
    /\ concatenated' = <<>>
    /\ result' = [result EXCEPT ![i] = <<>>]
    /\ error' = NoError
    /\ calls' = calls + 1
    /\ pre' = integrators[i].pca
    /\ rng0' = globalRng
    /\ trace' = <<>>
    /\ UNCHANGED <<integrators, globalRng>>

RaiseAndRetry(site) ==
    /\ pc' = pc
    /\ error' = ValueError(site)
    /\ UNCHANGED result

\* An exception leaves fit_transform: no value is returned.
Raise(site) ==
    /\ pc' = "raised"
    /\ error' = ValueError(site)
    /\ UNCHANGED result

RowsAgreeSkipsSc(a) ==
    /\ a["bulk_rna"].rows = a["metabolomics"].rows
    /\ a["spatial_trans"].rows = a["metabolomics"].rows

\* All four arrays have the row count of metabolomics.
RowsAgree(a) ==
    /\ a["bulk_rna"].rows = a["metabolomics"].rows
    /\ a["spatial_trans"].rows = a["metabolomics"].rows
    /\ a["sc_rna"].rows = a["metabolomics"].rows

\* The sanity check on the row counts.
CheckRows ==
    /\ pc = "check"
    /\ IF RowsAgree(args)
       THEN pc' = "per_view" /\ UNCHANGED <<result, error>>
       ELSE Raise("row_check")
    /\ UNCHANGED <<integrators, globalRng, self, args, latent, concatenated,
                   calls, pre, rng0, trace>>

\* self.<reducer>.fit_transform(<layer>) for layer l.
DoFitLayer(l) ==
    LET r == ReducerOf(l)
        f == PCAFitTransform(integrators[self].pca[r], args[l], globalRng)
    IN /\ trace' = Append(trace, [reducer |-> r, data |-> args[l].data, ok |-> f.ok])
       /\ integrators' = [integrators EXCEPT ![self].pca[r] = f.est]
       /\ globalRng' = f.rng
       /\ IF f.ok
          THEN /\ latent' = [latent EXCEPT ![l] = f.out]
               /\ UNCHANGED <<pc, result, error>>
          ELSE /\ Raise(r)
               /\ UNCHANGED latent
       /\ UNCHANGED <<self, args, concatenated, calls, pre, rng0>>

PositionReversed(l) == CHOOSE i \in 1..4 : LayerOrder[5 - i] = l

\* The place of layer l among the per-view statements.
Position(l) == CHOOSE i \in 1..4 : LayerOrder[i] = l

\* The statements run in source order: layer l is fit once the layers
\* before it have produced their latent matrices.
FitLayer(l) ==
    /\ pc = "per_view"
    /\ latent[l] = <<>>
    /\ \A i \in 1..(Position(l) - 1) : latent[LayerOrder[i]] # <<>>
    /\ DoFitLayer(l)

FitMetabolomics == FitLayer("metabolomics")
FitBulk == FitLayer("bulk_rna")
FitSpatial == FitLayer("spatial_trans")
FitSc == FitLayer("sc_rna")

Concatenate ==
    /\ pc = "per_view"
    /\ \A l \in Layers : latent[l] # <<>>
    /\ concatenated' = <<Hstack([i \in 1..4 |-> latent[LayerOrder[i]][1]])>>
    /\ pc' = "stacked"
    /\ UNCHANGED <<integrators, globalRng, self, args, latent, result, error,
                   calls, pre, rng0, trace>>

\* integrated_latent = self.pca_joint.fit_transform(concatenated); return.
FitJoint ==
    /\ pc = "stacked"
    /\ LET f == PCAFitTransform(integrators[self].pca["pca_joint"],
                                concatenated[1], globalRng)
       IN /\ trace' = Append(trace, [reducer |-> "pca_joint",
                                     data |-> <<"concatenated", "">>, ok |-> f.ok])
          /\ integrators' = [integrators EXCEPT ![self].pca["pca_joint"] = f.est]
          /\ globalRng' = f.rng
          /\ IF f.ok
             THEN /\ result' = [result EXCEPT ![self] = f.out]
                  /\ pc' = "returned"
                  /\ UNCHANGED error
             ELSE Raise("pca_joint")
    /\ UNCHANGED <<self, args, latent, concatenated, calls, pre, rng0>>

Steps ==
    \/ CheckRows
    \/ FitMetabolomics
    \/ FitBulk
    \/ FitSpatial
    \/ FitSc
    \/ Concatenate
    \/ FitJoint

FitTransform ==
    /\ pc = "idle"
    /\ calls < MaxCalls
    /\ \E a \in ArgSets : Call(1, a)

\* The caller moves on: the frame of the finished call, its return value or
\* its exception are dropped; the integrator keeps what the call left in it.
Resume ==
    /\ pc \in {"returned", "raised"}
    /\ pc' = "idle"
    /\ args' = NoArgs
    /\ latent' = NoLatents
    /\ concatenated' = <<>>
    /\ result' = [i \in Ids |-> <<>>]
    /\ error' = NoError
    /\ pre' = integrators[self].pca
    /\ rng0' = globalRng
    /\ trace' = <<>>
    /\ UNCHANGED <<integrators, globalRng, self, calls>>

Next ==
    \/ FitTransform
    \/ Steps
    \/ Resume

Spec == Init /\ [][Next]_vars

\* ---- fit_transform as one function (the sequential reference) ----
RECURSIVE SeqLayers(_, _, _)
SeqLayers(st, a, i) ==
    IF i > 4 \/ st.error # NoError THEN st
    ELSE LET l == LayerOrder[i]
             r == ReducerOf(l)
             f == PCAFitTransform(st.obj.pca[r], a[l], st.rng)
         IN SeqLayers([st EXCEPT !.obj.pca[r] = f.est,
                                 !.rng = f.rng,
                                 !.latent[l] = f.out,
                                 !.error = IF f.ok THEN NoError ELSE ValueError(r)],
                      a, i + 1)

\* The state and value fit_transform(a) leaves when run on integrator obj
\* with the process-wide generator at position rng.
FitTransformSeq(obj, a, rng) ==
    LET st0 == [obj |-> obj, rng |-> rng, latent |-> NoLatents,
                concatenated |-> <<>>, result |-> <<>>, error |-> NoError]
    IN IF ~RowsAgree(a) THEN [st0 EXCEPT !.error = ValueError("row_check")]
       ELSE LET st1 == SeqLayers(st0, a, 1)
            IN IF st1.error # NoError THEN st1
               ELSE LET c == Hstack([i \in 1..4 |-> st1.latent[LayerOrder[i]][1]])
                        f == PCAFitTransform(st1.obj.pca["pca_joint"], c, st1.rng)
                    IN [st1 EXCEPT !.obj.pca["pca_joint"] = f.est,
                                   !.rng = f.rng,
                                   !.concatenated = <<c>>,
                                   !.result = f.out,
                                   !.error = IF f.ok THEN NoError
                                             ELSE ValueError("pca_joint")]

\* ---- two integrators built alike, given the same arrays (as two demo runs) ----
InitTwin ==
    /\ \E k \in Components, rs \in RandomStates :
          integrators = [i \in {1, 2} |-> NewIntegrator(k, rs)]
    /\ InitFrame

FirstCall == pc = "idle" /\ calls = 0 /\ \E a \in ArgSets : Call(1, a)
SecondCall == pc \in {"returned", "raised"} /\ calls = 1 /\ Call(2, args)

NextTwin ==
    \/ FirstCall
    \/ SecondCall
    \/ Steps

SpecTwin == InitTwin /\ [][NextTwin]_vars

\* ---- the per-layer fits taken in any order ----
FitLayerAnyOrder ==
    \E l \in Layers :
        /\ pc = "per_view"
        /\ latent[l] = <<>>
        /\ DoFitLayer(l)

NextAnyOrder ==
    \/ FirstCall
    \/ CheckRows
    \/ FitLayerAnyOrder
    \/ Concatenate
    \/ FitJoint

SpecAnyOrder == Init /\ [][NextAnyOrder]_vars

\* ---- properties ----
NComponents == integrators[self].n_components
RandomState == integrators[self].random_state
Pca == integrators[self].pca
PerLayerReducers == {"pca_metabolomics", "pca_bulk_rna", "pca_spatial", "pca_sc_rna"}
InCall == pc # "idle"
Fitted(est) == est.fit # <<>>

\* C1: a call whose row counts are not all equal raises at the row check
\* (ShapeMismatch) with no estimator fit: all five estimators keep the state
\* they had when the call began, whatever that state was.
C1_MismatchFailsFast ==
    (InCall /\ ~( /\ args["bulk_rna"].rows = args["metabolomics"].rows
                  /\ args["spatial_trans"].rows = args["metabolomics"].rows
                  /\ args["sc_rna"].rows = args["metabolomics"].rows))
    => /\ Pca = pre
       /\ trace = <<>>
       /\ pc \in {"check", "raised"}
       /\ pc = "raised" => /\ error = ValueError("row_check")
                           /\ result[self] = <<>>

\* C1 witness: only sc_rna differs, on an integrator fitted by an earlier call.
C1_Witness ==
    /\ pc = "raised"
    /\ error.at = "row_check"
    /\ args["bulk_rna"].rows = args["metabolomics"].rows
    /\ args["spatial_trans"].rows = args["metabolomics"].rows
    /\ args["sc_rna"].rows # args["metabolomics"].rows
    /\ \A r \in Reducers : Fitted(pre[r])
    /\ Pca = pre

ValidInputs ==
    /\ InCall
    /\ \A l \in Layers :
          /\ args[l].rows = args["metabolomics"].rows
          /\ args[l].rows >= NComponents
          /\ args[l].cols >= NComponents

\* C2: on valid inputs (equal row count n >= n_components, every width >=
\* n_components) the call never raises and returns a matrix of shape
\* (n, n_components); the joint estimator never fails once the four
\* per-layer estimators have succeeded.
C2_ValidInputsReturn ==
    /\ error.at # "pca_joint"
    /\ ValidInputs =>
          /\ pc # "raised"
          /\ pc = "returned" =>
                /\ Len(result[self]) = 1
                /\ result[self][1].rows = args["metabolomics"].rows
                /\ result[self][1].cols = NComponents

\* C2 witness: a returned call whose row count equals n_components.
C2_Witness ==
    /\ pc = "returned"
    /\ ValidInputs
    /\ args["metabolomics"].rows = NComponents
    /\ NComponents = MaxComp
    /\ result[self][1].cols = NComponents

\* C3: with equal row counts, if any layer has fewer rows or fewer columns
\* than n_components the call raises the estimator's shape error
\* (InvalidShape) and returns nothing.
C3_TooSmallRaises ==
    (/\ InCall
     /\ RowsAgree(args)
     /\ \E l \in Layers : args[l].rows < NComponents \/ args[l].cols < NComponents
     /\ Quiescent)
    => /\ pc = "raised"
       /\ error.type = "ValueError"
       /\ error.at \in Reducers
       /\ result[self] = <<>>

\* C3 witness: the rows suffice but one layer is too narrow.
C3_Witness ==
    /\ pc = "raised"
    /\ error.at = "pca_spatial"
    /\ RowsAgree(args)
    /\ args["spatial_trans"].rows >= NComponents
    /\ args["spatial_trans"].cols < NComponents

\* C4: two integrators built with the same n_components and the same integer
\* random_state, each given the same four arrays on its first call, return
\* identical values (or raise alike) and end in identical fitted states.
C4_Deterministic ==
    (/\ DOMAIN integrators = {1, 2}
     /\ calls = 2
     /\ Quiescent
     /\ integrators[1].random_state # None)
    => /\ result[1] = result[2]
       /\ integrators[1] = integrators[2]

\* C4 witness: both calls returned and a per-layer fit ran the randomized
\* solver from the seed.
C4_Witness ==
    /\ DOMAIN integrators = {1, 2}
    /\ calls = 2
    /\ pc = "returned"
    /\ integrators[1].random_state # None
    /\ result[1] # <<>>
    /\ result[1] = result[2]
    /\ integrators[2].pca["pca_bulk_rna"].fit[1].basis.rnd[1] = "seed"

NoRetry ==
    /\ \A i, j \in 1..Len(trace) : i # j => trace[i].reducer # trace[j].reducer
    /\ \A i \in 1..(Len(trace) - 1) : trace[i].ok

\* C5: a call ends either returned, with a matrix and no error, or raised,
\* with an error and no matrix; while it runs there is neither.  A failed
\* step is the last step of the call: no estimator is tried twice and
\* nothing runs after a failure.
C5_ReturnOrRaise ==
    InCall =>
       /\ NoRetry
       /\ pc = "returned" => /\ result[self] # <<>>
                             /\ error = NoError
                             /\ \A i \in 1..Len(trace) : trace[i].ok
       /\ pc = "raised" => /\ result[self] = <<>>
                           /\ error.type = "ValueError"
                           /\ error.at = "row_check" => trace = <<>>
                           /\ error.at # "row_check" =>
                                 /\ trace # <<>>
                                 /\ ~trace[Len(trace)].ok
                                 /\ trace[Len(trace)].reducer = error.at
       /\ pc \notin {"returned", "raised"} => /\ result[self] = <<>>
                                              /\ error = NoError
                                              /\ \A i \in 1..Len(trace) : trace[i].ok

\* C5 witness: a call aborted at the third per-layer fit after two successes.
C5_Witness ==
    /\ pc = "raised"
    /\ error.at = "pca_spatial"
    /\ Len(trace) = 3
    /\ trace[1].ok /\ trace[2].ok /\ ~trace[3].ok
    /\ result[self] = <<>>

\* C6: the matrix given to the joint estimator has the inputs' row count and
\* 4 x n_components columns: the latent matrices of metabolomics, bulk RNA,
\* spatial transcriptomics and single-cell RNA in that order, n_components
\* columns each.
C6_ConcatenationOrder ==
    concatenated # <<>> =>
       LET c == concatenated[1]
           order == <<"metabolomics", "bulk_rna", "spatial_trans", "sc_rna">>
       IN /\ c.rows = args["metabolomics"].rows
          /\ c.cols = 4 * NComponents
          /\ Len(c.data) = 4
          /\ \A i \in 1..4 :
                /\ latent[order[i]] # <<>>
                /\ latent[order[i]][1].cols = NComponents
                /\ latent[order[i]][1].rows = c.rows
                /\ c.data[i] = latent[order[i]][1].data
                /\ c.data[i].of = args[order[i]].data

\* C6 witness: the concatenation has been built from four layers of
\* different widths.
C6_Witness ==
    /\ pc = "stacked"
    /\ concatenated[1].cols = 4 * NComponents
    /\ args["bulk_rna"].cols # args["spatial_trans"].cols

OwnLayer ==
    [pca_metabolomics |-> "metabolomics", pca_bulk_rna |-> "bulk_rna",
     pca_spatial |-> "spatial_trans", pca_sc_rna |-> "sc_rna"]

\* C7: the five estimators are those built at construction; within a call
\* each is fit at most once, a per-layer estimator only on its own layer, the
\* joint estimator only after the four per-layer fits of this call; a call
\* that returns has fit each of the five exactly once.
C7_FitOncePerCall ==
    /\ \A r \in Reducers :
          /\ Pca[r].n_components = NComponents
          /\ Pca[r].random_state = RandomState
    /\ \A i, j \in 1..Len(trace) : i # j => trace[i].reducer # trace[j].reducer
    /\ \A i \in 1..Len(trace) :
          IF trace[i].reducer = "pca_joint"
          THEN \A r \in PerLayerReducers :
                  \E j \in 1..(i - 1) : trace[j].reducer = r /\ trace[j].ok
          ELSE /\ trace[i].data = args[OwnLayer[trace[i].reducer]].data
               /\ trace[i].ok =>
                     Pca[trace[i].reducer].fit[1].basis.of
                        = args[OwnLayer[trace[i].reducer]].data
    /\ pc = "returned" =>
          /\ Len(trace) = 5
          /\ {trace[i].reducer : i \in 1..5} = Reducers

\* C7 witness: a returned call, its fifth fit being the joint one.
C7_Witness ==
    /\ pc = "returned"
    /\ Len(trace) = 5
    /\ trace[5].reducer = "pca_joint"
    /\ trace[5].ok

\* C8: after a call returns, the five estimators and the returned matrix
\* are those a freshly constructed integrator of the same configuration would
\* have after this call alone; nothing of earlier calls is left.
C8_RefitDiscardsPrior ==
    pc = "returned" =>
       LET ref == FitTransformSeq(NewIntegrator(NComponents, RandomState), args, rng0)
       IN /\ ref.error = NoError
          /\ Pca = ref.obj.pca
          /\ result[self] = ref.result

\* C8 witness: a second successful call whose layers have other widths than
\* those every estimator was fitted on before.
C8_Witness ==
    /\ pc = "returned"
    /\ calls = 2
    /\ \A r \in Reducers : Fitted(pre[r])
    /\ \E l \in Layers : pre[ReducerOf(l)].fit[1].n_features # args[l].cols
    /\ \E l \in Layers : pre[ReducerOf(l)].fit[1].basis.of # args[l].data

BeforeCall == [integrators[self] EXCEPT !.pca = pre]
Sequential == FitTransformSeq(BeforeCall, args, rng0)

\* C9 as stated: whatever the order of the four per-layer fits, the latent
\* matrices, the concatenation and the output are those of the source order.
C9_AnyOrderSame ==
    /\ pc \in {"stacked", "returned"} =>
          /\ latent = Sequential.latent
          /\ concatenated = Sequential.concatenated
    /\ pc = "returned" => result[self] = Sequential.result

RandomizedLayers == {l \in Layers : UsesRandomized(Pca[ReducerOf(l)], args[l])}

\* C9 amended: the same, when random_state is an integer seed or at most one
\* layer takes the randomized solver; with random_state=None the randomized
\* fits draw from the shared process-wide generator in execution order.
C9_AnyOrderSameSeeded ==
    (RandomState # None \/ Cardinality(RandomizedLayers) <= 1) =>
       /\ pc \in {"stacked", "returned"} =>
             /\ latent = Sequential.latent
             /\ concatenated = Sequential.concatenated
       /\ pc = "returned" =>
             /\ result[self] = Sequential.result
             /\ Pca = Sequential.obj.pca

\* C9 witness: a seeded call returned after fitting out of source order, two
\* layers on the randomized solver.
C9_Witness ==
    /\ pc = "returned"
    /\ RandomState # None
    /\ trace[1].reducer = "pca_sc_rna"
    /\ trace[2].reducer = "pca_bulk_rna"
    /\ Cardinality(RandomizedLayers) >= 2
    /\ result[self] = Sequential.result

\* C10: when a per-layer fit raises, the estimators of the layers before it
\* (metabolomics, bulk RNA, spatial, single-cell order) are refit on this
\* call's arrays, and the estimators of the layers after it and the joint
\* estimator keep the state they had before the call.
C10_PartialRefit ==
    (pc = "raised" /\ error.at \in PerLayerReducers) =>
       LET order == <<"pca_metabolomics", "pca_bulk_rna", "pca_spatial", "pca_sc_rna">>
           j == CHOOSE i \in 1..4 : order[i] = error.at
       IN /\ \A i \in 1..(j - 1) :
                /\ Fitted(Pca[order[i]])
                /\ Pca[order[i]].fit[1].basis.of = args[OwnLayer[order[i]]].data
                /\ Pca[order[i]].fit[1].n_samples = args[OwnLayer[order[i]]].rows
                /\ Pca[order[i]].fit[1].n_features = args[OwnLayer[order[i]]].cols
          /\ \A i \in (j + 1)..4 : Pca[order[i]] = pre[order[i]]
          /\ Pca["pca_joint"] = pre["pca_joint"]

\* C10 witness: the spatial fit raised on an integrator fitted before; the
\* metabolomics estimator has changed, the single-cell one has not.
C10_Witness ==
    /\ pc = "raised"
    /\ error.at = "pca_spatial"
    /\ \A r \in Reducers : Fitted(pre[r])
    /\ Pca["pca_metabolomics"] # pre["pca_metabolomics"]
    /\ Pca["pca_sc_rna"] = pre["pca_sc_rna"]
    /\ Pca["pca_joint"] = pre["pca_joint"]

====
